---- MODULE Spec2Model ----
(***************************************************************************)
(* Layer adapters of ravdl (ravdl/DLOps/layers.py).                        *)
(*                                                                         *)
(* One layer object is modelled together with the part of the external     *)
(* graph runtime (module R) it talks to: the log of declarations made on   *)
(* the graph, and the outcome of the latest method call.                   *)
(*                                                                         *)
(* Every Python method is an operator Class_method(self, decls, args)      *)
(* whose value is the outcome of the call: the layer after the call, the   *)
(* declaration log after the call and what the call returned or raised.    *)
(* An action picks the arguments and applies the outcome.                  *)
(*                                                                         *)
(* Not modelled: the float hyper-parameters (momentum, eps, p), the        *)
(* activation name, and the pass-through configuration arguments of the    *)
(* declarations (input_layer, n_units, input_shape, stride, ...), which    *)
(* only copy constructor arguments into the call.                          *)
(***************************************************************************)
EXTENDS Integers, Sequences, FiniteSets, TLC

VARIABLES layer, decls, ret

vars == <<layer, decls, ret>>

----------------------------------------------------------------------------
(* Bounds *)

MaxDecl == 3
MaxDim == 5
MaxChannels == 2
MaxUnits == 3
MaxFilter == 4
MaxFilters == 2
MaxStride == 2
MaxPool == 3

----------------------------------------------------------------------------
(* Values *)

\* Python None as a node handle / attribute value
None == 0
\* an attribute that was never assigned, or a keyword that is not passed
Absent == -1

\* graph nodes handed in by the caller: inputs X and gradients
Inputs == {101, 102}
Grads == {201}
\* the optimizer object given to initialize(); data_dict() exports its state
Optimizers == {301}
data_dict(optimizer) == optimizer

\* input_shape is an attribute that may be missing, None or a tuple
Unset == [tag |-> "unset", v |-> <<>>]
NoneShape == [tag |-> "None", v |-> <<>>]
Tuple(s) == [tag |-> "tuple", v |-> s]

RECURSIVE Prod(_)
\* np.prod of a tuple of ints
Prod(s) == IF s = <<>> THEN 1 ELSE Head(s) * Prod(Tail(s))

\* Python's "/" on ints gives a float: kept exact as a fraction
TrueDiv(a, b) == [num |-> a, den |-> b]
\* float + int
FloatAdd(q, k) == [num |-> q.num + k * q.den, den |-> q.den]
\* q % 1 == 0
FloatIsWhole(q) == q.num % q.den = 0
\* int(q): truncation toward zero
IntOf(q) == IF q.num >= 0 THEN q.num \div q.den ELSE -((-q.num) \div q.den)

----------------------------------------------------------------------------
(* Outcome of a call *)

Ret(op) ==
  [op |-> op, err |-> "", shape |-> Unset, node |-> Absent, count |-> Absent,
   name |-> "", dict_calls |-> 0, persisted |-> <<>>, training |-> FALSE]

Raise(op, err) == [Ret(op) EXCEPT !.err = err]

Out(self, log, r) == [self |-> self, decls |-> log, ret |-> r]

\* a declaration on the graph: the runtime returns a fresh node handle
NewNode(log) == Len(log) + 1

Decl(op, dir, x) ==
  [op |-> op, dir |-> dir, node |-> Absent, x |-> x, data |-> Absent,
   layer_input |-> Absent, prev_input |-> Absent, training |-> "",
   trainable |-> "", optimizer |-> Absent]

Declare(log, d) == Append(log, [d EXCEPT !.node = NewNode(log)])

\* persist_op(name) requested on a node handle
PersistOp(handle, name) == [node |-> handle, name |-> name]

----------------------------------------------------------------------------
(* class Layer *)

\* the attributes every constructor of the file assigns
NewLayer(kind) ==
  [kind |-> kind, input_shape |-> Unset, layer_name |-> "<unset>",
   trainable |-> TRUE, forward_pass |-> None, backward_pass |-> None,
   layer_input |-> Absent, prev_input |-> Absent, optimizer |-> Absent,
   n_units |-> 0, n_filters |-> 0, filter_shape |-> <<>>, stride |-> 0,
   padding |-> "", pool_shape |-> <<>>,
   np_W |-> <<>>, np_w0 |-> <<>>, np_gamma |-> <<>>, np_beta |-> <<>>]

Layer_set_input_shape(self, log, shape) ==
  Out([self EXCEPT !.input_shape = shape], log, Ret("set_input_shape"))

\* name = "" stands for the default name=None
Layer_set_layer_name(self, log, name) ==
  Out([self EXCEPT !.layer_name = IF name # "" THEN name ELSE self.kind],
      log, Ret("set_layer_name"))

Layer_get_layer_name(self, log) ==
  IF self.layer_name = "<unset>"
  THEN Out(self, log, Raise("get_layer_name", "AttributeError"))
  ELSE Out(self, log, [Ret("get_layer_name") EXCEPT !.name = self.layer_name])

Layer_parameters(self, log) ==
  Out(self, log, [Ret("parameters") EXCEPT !.count = 0])

\* the trainable attribute is public: the owner of the layer assigns it
set_trainable(self, log, b) ==
  Out([self EXCEPT !.trainable = b], log, Ret("set_trainable"))

\* a method the class does not define
NoSuchMethod(self, log, op) == Out(self, log, Raise(op, "AttributeError"))

\* self.forward_pass.persist_op(..); self.backward_pass.persist_op(..)
PersistBoth(self, log) ==
  LET op == "persist_weights"
      fwd == PersistOp(self.forward_pass, self.layer_name \o "_forward_pass")
      bwd == PersistOp(self.backward_pass, self.layer_name \o "_backward_pass")
  IN  IF self.forward_pass = None \/ self.layer_name = "<unset>"
      THEN Out(self, log, Raise(op, "AttributeError"))
      ELSE IF self.backward_pass = None
      THEN Out(self, log, [Raise(op, "AttributeError") EXCEPT !.persisted = <<fwd>>])
      ELSE Out(self, log, [Ret(op) EXCEPT !.persisted = <<fwd, bwd>>])

\* def persist_weights(self): pass
PersistNothing(self, log) == Out(self, log, Ret("persist_weights"))

----------------------------------------------------------------------------
(* class Dense *)

Dense_init(n_units, input_shape) ==
  [NewLayer("Dense") EXCEPT !.n_units = n_units, !.layer_input = None,
                            !.input_shape = input_shape]

Dense_initialize(self, log, optimizer) ==
  LET s1 == [self EXCEPT !.optimizer = optimizer]
      shape == self.input_shape
  IN  IF shape.tag = "unset" THEN Out(s1, log, Raise("initialize", "AttributeError"))
      ELSE IF shape.tag = "None" THEN Out(s1, log, Raise("initialize", "TypeError"))
      ELSE IF shape.v = <<>> THEN Out(s1, log, Raise("initialize", "IndexError"))
      ELSE Out([s1 EXCEPT !.np_W = <<shape.v[1], self.n_units>>,
                          !.np_w0 = <<1, self.n_units>>],
               log, Ret("initialize"))

\* faulty variant: the bias is left out of the count
Dense_parameters_WithoutBias(self, log) ==
  IF self.np_W = <<>>
  THEN Out(self, log, Raise("parameters", "AttributeError"))
  ELSE Out(self, log, [Ret("parameters") EXCEPT !.count = Prod(self.np_W)])

Dense_parameters(self, log) ==
  IF self.np_W = <<>>
  THEN Out(self, log, Raise("parameters", "AttributeError"))
  ELSE Out(self, log,
           [Ret("parameters") EXCEPT !.count = Prod(self.np_W) + Prod(self.np_w0)])

Dense_forward_pass(self, log, X, training) ==
  LET d == [Decl("forward_pass_dense", "forward", X) EXCEPT
              !.data = self.backward_pass]
  IN  Out([self EXCEPT !.layer_input = X, !.forward_pass = NewNode(log)],
          Declare(log, d),
          [Ret("_forward_pass") EXCEPT !.node = NewNode(log), !.training = training])

\* faulty variant: the backward node is declared whatever trainable says
Dense_backward_pass_Always(self, log, loss_grad) ==
  IF self.optimizer = Absent
  THEN Out(self, log, Raise("_backward_pass", "AttributeError"))
  ELSE LET d == [Decl("backward_pass_dense", "backward", loss_grad) EXCEPT
                   !.layer_input = self.layer_input,
                   !.optimizer = data_dict(self.optimizer),
                   !.data = self.forward_pass]
       IN  Out([self EXCEPT !.backward_pass = NewNode(log)],
               Declare(log, d),
               [Ret("_backward_pass") EXCEPT !.node = NewNode(log),
                                             !.dict_calls = 1])

Dense_backward_pass(self, log, loss_grad) ==
  IF self.trainable
  THEN IF self.optimizer = Absent
       THEN Out(self, log, Raise("_backward_pass", "AttributeError"))
       ELSE LET d == [Decl("backward_pass_dense", "backward", loss_grad) EXCEPT
                        !.layer_input = self.layer_input,
                        !.optimizer = data_dict(self.optimizer),
                        !.data = self.forward_pass]
            IN  Out([self EXCEPT !.backward_pass = NewNode(log)],
                    Declare(log, d),
                    [Ret("_backward_pass") EXCEPT !.node = NewNode(log),
                                                  !.dict_calls = 1])
  ELSE Out(self, log, [Ret("_backward_pass") EXCEPT !.node = self.backward_pass])

Dense_output_shape(self, log) ==
  Out(self, log, [Ret("output_shape") EXCEPT !.shape = Tuple(<<self.n_units>>)])

Dense_persist_weights(self, log) == PersistBoth(self, log)

----------------------------------------------------------------------------
(* class BatchNormalization *)

BatchNormalization_init == NewLayer("BatchNormalization")

\* faulty variant: the length of the input shape is not looked at
BatchNormalization_shape_Flat(input_shape) == <<1, input_shape[1]>>

\* the shape of gamma and beta chosen by initialize
BatchNormalization_shape(input_shape) ==
  IF Len(input_shape) = 1
  THEN <<1, input_shape[1]>>
  ELSE <<1, input_shape[1], 1, 1>>

BatchNormalization_initialize(self, log, optimizer) ==
  LET s1 == [self EXCEPT !.optimizer = optimizer]
      shape == self.input_shape
  IN  IF shape.tag = "unset" THEN Out(s1, log, Raise("initialize", "AttributeError"))
      ELSE IF shape.tag = "None" THEN Out(s1, log, Raise("initialize", "TypeError"))
      ELSE IF shape.v = <<>> THEN Out(s1, log, Raise("initialize", "IndexError"))
      ELSE Out([s1 EXCEPT !.np_gamma = BatchNormalization_shape(shape.v),
                          !.np_beta = BatchNormalization_shape(shape.v)],
               log, Ret("initialize"))

BatchNormalization_parameters(self, log) ==
  IF self.np_gamma = <<>>
  THEN Out(self, log, Raise("parameters", "AttributeError"))
  ELSE Out(self, log,
           [Ret("parameters") EXCEPT
              !.count = Prod(self.np_gamma) + Prod(self.np_beta)])

BatchNormalization_forward_pass(self, log, X, training) ==
  IF self.input_shape.tag = "unset"
  THEN Out(self, log, [Raise("_forward_pass", "AttributeError") EXCEPT
                         !.training = training])
  ELSE LET d == [Decl("forward_pass_batchnorm", "forward", X) EXCEPT
                   !.training = IF training THEN "True" ELSE "False",
                   !.trainable = IF self.trainable THEN "True" ELSE "False",
                   !.data = self.backward_pass]
       IN  Out([self EXCEPT !.forward_pass = NewNode(log)],
               Declare(log, d),
               [Ret("_forward_pass") EXCEPT !.node = NewNode(log),
                                            !.training = training])

\* the local variable trainable is bound only when self.trainable holds; the
\* keyword arguments are evaluated in order, so data_dict() has been called
\* by the time the unbound local is read
BatchNormalization_backward_pass(self, log, accum_grad) ==
  IF self.input_shape.tag = "unset" \/ self.optimizer = Absent
  THEN Out(self, log, Raise("_backward_pass", "AttributeError"))
  ELSE IF ~self.trainable
  THEN Out(self, log, [Raise("_backward_pass", "UnboundLocalError") EXCEPT
                         !.dict_calls = 1])
  ELSE LET d == [Decl("backward_pass_batchnorm", "backward", accum_grad) EXCEPT
                   !.optimizer = data_dict(self.optimizer),
                   !.trainable = "True",
                   !.data = self.forward_pass]
       IN  Out([self EXCEPT !.backward_pass = NewNode(log)],
               Declare(log, d),
               [Ret("_backward_pass") EXCEPT !.node = NewNode(log),
                                             !.dict_calls = 1])

BatchNormalization_output_shape(self, log) ==
  IF self.input_shape.tag = "unset"
  THEN Out(self, log, Raise("output_shape", "AttributeError"))
  ELSE Out(self, log, [Ret("output_shape") EXCEPT !.shape = self.input_shape])

BatchNormalization_persist_weights(self, log) == PersistBoth(self, log)

----------------------------------------------------------------------------
(* class Dropout *)

Dropout_init == [NewLayer("Dropout") EXCEPT !.input_shape = NoneShape]

\* faulty variant: a forward handle that is already held is kept
Dropout_forward_pass_KeepFirst(self, log, X, training) ==
  LET d == [Decl("forward_pass_dropout", "forward", X) EXCEPT
              !.training = IF training THEN "True" ELSE "False"]
  IN  Out([self EXCEPT !.forward_pass =
                          IF self.forward_pass = None THEN NewNode(log)
                          ELSE self.forward_pass],
          Declare(log, d),
          [Ret("_forward_pass") EXCEPT !.node = NewNode(log), !.training = training])

Dropout_forward_pass(self, log, X, training) ==
  LET d == [Decl("forward_pass_dropout", "forward", X) EXCEPT
              !.training = IF training THEN "True" ELSE "False"]
  IN  Out([self EXCEPT !.forward_pass = NewNode(log)],
          Declare(log, d),
          [Ret("_forward_pass") EXCEPT !.node = NewNode(log), !.training = training])

\* faulty variant: the backward handle is passed as data
Dropout_backward_pass_OwnHandle(self, log, accum_grad) ==
  LET d == [Decl("backward_pass_dropout", "backward", accum_grad) EXCEPT
              !.data = self.backward_pass]
  IN  Out([self EXCEPT !.backward_pass = NewNode(log)],
          Declare(log, d),
          [Ret("_backward_pass") EXCEPT !.node = NewNode(log)])

Dropout_backward_pass(self, log, accum_grad) ==
  LET d == [Decl("backward_pass_dropout", "backward", accum_grad) EXCEPT
              !.data = self.forward_pass]
  IN  Out([self EXCEPT !.backward_pass = NewNode(log)],
          Declare(log, d),
          [Ret("_backward_pass") EXCEPT !.node = NewNode(log)])

Dropout_output_shape(self, log) ==
  Out(self, log, [Ret("output_shape") EXCEPT !.shape = self.input_shape])

Dropout_persist_weights(self, log) == PersistNothing(self, log)

\* self.p is a float: it has no persist_op
Dropout_save_weights(self, log) ==
  Out(self, log, Raise("save_weights", "AttributeError"))

----------------------------------------------------------------------------
(* class Activation *)

Activation_init == NewLayer("Activation")

Activation_forward_pass(self, log, X, training) ==
  LET d == Decl("forward_pass_activation", "forward", X)
  IN  Out([self EXCEPT !.layer_input = X, !.forward_pass = NewNode(log)],
          Declare(log, d),
          [Ret("_forward_pass") EXCEPT !.node = NewNode(log), !.training = training])

Activation_backward_pass(self, log, accum_grad) ==
  IF self.layer_input = Absent
  THEN Out(self, log, Raise("_backward_pass", "AttributeError"))
  ELSE LET d == [Decl("backward_pass_activation", "backward", accum_grad) EXCEPT
                   !.layer_input = self.layer_input]
       IN  Out([self EXCEPT !.backward_pass = NewNode(log)],
               Declare(log, d),
               [Ret("_backward_pass") EXCEPT !.node = NewNode(log)])

Activation_output_shape(self, log) ==
  IF self.input_shape.tag = "unset"
  THEN Out(self, log, Raise("output_shape", "AttributeError"))
  ELSE Out(self, log, [Ret("output_shape") EXCEPT !.shape = self.input_shape])

Activation_persist_weights(self, log) == PersistNothing(self, log)

----------------------------------------------------------------------------
(* class Conv2D *)

Conv2D_init(n_filters, filter_shape, input_shape, padding, stride) ==
  [NewLayer("Conv2D") EXCEPT !.n_filters = n_filters,
                             !.filter_shape = filter_shape,
                             !.padding = padding, !.stride = stride,
                             !.input_shape = input_shape]

\* utils.data_operations.determine_padding: the pair of (before, after)
\* paddings of the height and of the width
determine_padding(filter_shape, output_shape) ==
  IF output_shape = "valid"
  THEN << <<0, 0>>, <<0, 0>> >>
  ELSE << <<(filter_shape[1] - 1) \div 2,
            (filter_shape[1] - 1) - ((filter_shape[1] - 1) \div 2)>>,
          <<(filter_shape[2] - 1) \div 2,
            (filter_shape[2] - 1) - ((filter_shape[2] - 1) \div 2)>> >>

\* np.sum of a pair
Sum2(pair) == pair[1] + pair[2]

Conv2D_initialize(self, log, optimizer) ==
  LET s1 == [self EXCEPT !.optimizer = optimizer]
      shape == self.input_shape
  IN  IF shape.tag = "unset" THEN Out(s1, log, Raise("initialize", "AttributeError"))
      ELSE IF shape.tag = "None" THEN Out(s1, log, Raise("initialize", "TypeError"))
      ELSE IF shape.v = <<>> THEN Out(s1, log, Raise("initialize", "IndexError"))
      ELSE Out([s1 EXCEPT !.np_W = <<self.n_filters, shape.v[1],
                                     self.filter_shape[1], self.filter_shape[2]>>,
                          !.np_w0 = <<self.n_filters, 1>>],
               log, Ret("initialize"))

Conv2D_parameters(self, log) ==
  IF self.np_W = <<>>
  THEN Out(self, log, Raise("parameters", "AttributeError"))
  ELSE Out(self, log,
           [Ret("parameters") EXCEPT !.count = Prod(self.np_W) + Prod(self.np_w0)])

Conv2D_forward_pass(self, log, X, training) ==
  LET d == [Decl("forward_pass_conv2d", "forward", X) EXCEPT
              !.data = self.backward_pass]
  IN  Out([self EXCEPT !.layer_input = X, !.forward_pass = NewNode(log)],
          Declare(log, d),
          [Ret("_forward_pass") EXCEPT !.node = NewNode(log), !.training = training])

Conv2D_backward_pass(self, log, accum_grad) ==
  IF self.layer_input = Absent \/ self.optimizer = Absent
  THEN Out(self, log, Raise("_backward_pass", "AttributeError"))
  ELSE LET d == [Decl("backward_pass_conv2d", "backward", accum_grad) EXCEPT
                   !.layer_input = self.layer_input,
                   !.optimizer = data_dict(self.optimizer),
                   !.data = self.forward_pass,
                   !.trainable = IF self.trainable THEN "True" ELSE "False"]
       IN  Out([self EXCEPT !.backward_pass = NewNode(log)],
               Declare(log, d),
               [Ret("_backward_pass") EXCEPT !.node = NewNode(log),
                                             !.dict_calls = 1])

\* faulty variant: only the padding before the image is counted
Conv2D_output_shape_PadBefore(self, log) ==
  LET shape == self.input_shape
      op == "output_shape"
  IN  IF shape.tag = "unset" THEN Out(self, log, Raise(op, "AttributeError"))
      ELSE IF shape.tag = "None" THEN Out(self, log, Raise(op, "TypeError"))
      ELSE IF Len(shape.v) # 3 THEN Out(self, log, Raise(op, "ValueError"))
      ELSE
        LET pad == determine_padding(self.filter_shape, self.padding)
            output_height ==
              FloatAdd(TrueDiv(shape.v[2] + pad[1][1] - self.filter_shape[1],
                               self.stride), 1)
            output_width ==
              FloatAdd(TrueDiv(shape.v[3] + pad[2][1] - self.filter_shape[2],
                               self.stride), 1)
        IN  Out(self, log,
                [Ret(op) EXCEPT !.shape = Tuple(<<self.n_filters,
                                                  IntOf(output_height),
                                                  IntOf(output_width)>>)])

Conv2D_output_shape(self, log) ==
  LET shape == self.input_shape
      op == "output_shape"
  IN  IF shape.tag = "unset" THEN Out(self, log, Raise(op, "AttributeError"))
      ELSE IF shape.tag = "None" THEN Out(self, log, Raise(op, "TypeError"))
      ELSE IF Len(shape.v) # 3 THEN Out(self, log, Raise(op, "ValueError"))
      ELSE
        LET height == shape.v[2]
            width == shape.v[3]
            pad == determine_padding(self.filter_shape, self.padding)
            pad_h == pad[1]
            pad_w == pad[2]
            output_height ==
              FloatAdd(TrueDiv(height + Sum2(pad_h) - self.filter_shape[1],
                               self.stride), 1)
            output_width ==
              FloatAdd(TrueDiv(width + Sum2(pad_w) - self.filter_shape[2],
                               self.stride), 1)
        IN  Out(self, log,
                [Ret(op) EXCEPT !.shape = Tuple(<<self.n_filters,
                                                  IntOf(output_height),
                                                  IntOf(output_width)>>)])

Conv2D_persist_weights(self, log) == PersistBoth(self, log)

----------------------------------------------------------------------------
(* class Flatten *)

Flatten_init(input_shape) == [NewLayer("Flatten") EXCEPT !.input_shape = input_shape]

Flatten_forward_pass(self, log, X, training) ==
  LET d == Decl("forward_pass_flatten", "forward", X)
  IN  Out([self EXCEPT !.prev_input = X, !.forward_pass = NewNode(log)],
          Declare(log, d),
          [Ret("_forward_pass") EXCEPT !.node = NewNode(log), !.training = training])

Flatten_backward_pass(self, log, accum_grad) ==
  IF self.prev_input = Absent
  THEN Out(self, log, Raise("_backward_pass", "AttributeError"))
  ELSE LET d == [Decl("backward_pass_flatten", "backward", accum_grad) EXCEPT
                   !.prev_input = self.prev_input]
       IN  Out([self EXCEPT !.backward_pass = NewNode(log)],
               Declare(log, d),
               [Ret("_backward_pass") EXCEPT !.node = NewNode(log)])

\* faulty variant: the flattened shape is written back to input_shape
Flatten_output_shape_Storing(self, log) ==
  LET shape == self.input_shape
      op == "output_shape"
  IN  IF shape.tag = "unset" THEN Out(self, log, Raise(op, "AttributeError"))
      ELSE IF shape.tag = "None" THEN Out(self, log, Raise(op, "TypeError"))
      ELSE Out([self EXCEPT !.input_shape = Tuple(<<Prod(shape.v)>>)], log,
               [Ret(op) EXCEPT !.shape = Tuple(<<Prod(shape.v)>>)])

Flatten_output_shape(self, log) ==
  LET shape == self.input_shape
      op == "output_shape"
  IN  IF shape.tag = "unset" THEN Out(self, log, Raise(op, "AttributeError"))
      ELSE IF shape.tag = "None" THEN Out(self, log, Raise(op, "TypeError"))
      ELSE Out(self, log, [Ret(op) EXCEPT !.shape = Tuple(<<Prod(shape.v)>>)])

Flatten_persist_weights(self, log) == PersistNothing(self, log)

----------------------------------------------------------------------------
(* class MaxPooling2D *)

MaxPooling2D_init(pool_shape, stride) ==
  [NewLayer("MaxPooling2D") EXCEPT !.pool_shape = pool_shape, !.stride = stride,
                                   !.padding = "same"]

MaxPooling2D_forward_pass(self, log, X, training) ==
  IF self.input_shape.tag = "unset"
  THEN Out(self, log, [Raise("_forward_pass", "AttributeError") EXCEPT
                         !.training = training])
  ELSE LET d == Decl("forward_pass_maxpool2d", "forward", X)
       IN  Out([self EXCEPT !.forward_pass = NewNode(log)],
               Declare(log, d),
               [Ret("_forward_pass") EXCEPT !.node = NewNode(log),
                                            !.training = training])

MaxPooling2D_backward_pass(self, log, accum_grad) ==
  IF self.input_shape.tag = "unset"
  THEN Out(self, log, Raise("_backward_pass", "AttributeError"))
  ELSE LET d == [Decl("backward_pass_maxpool2d", "backward", accum_grad) EXCEPT
                   !.data = self.forward_pass]
       IN  Out([self EXCEPT !.backward_pass = NewNode(log)],
               Declare(log, d),
               [Ret("_backward_pass") EXCEPT !.node = NewNode(log)])

\* faulty variant: the two assertions are missing
MaxPooling2D_output_shape_Truncating(self, log) ==
  LET shape == self.input_shape
      op == "output_shape"
  IN  IF shape.tag = "unset" THEN Out(self, log, Raise(op, "AttributeError"))
      ELSE IF shape.tag = "None" THEN Out(self, log, Raise(op, "TypeError"))
      ELSE IF Len(shape.v) # 3 THEN Out(self, log, Raise(op, "ValueError"))
      ELSE
        LET out_height ==
              FloatAdd(TrueDiv(shape.v[2] - self.pool_shape[1], self.stride), 1)
            out_width ==
              FloatAdd(TrueDiv(shape.v[3] - self.pool_shape[2], self.stride), 1)
        IN  Out(self, log,
                [Ret(op) EXCEPT !.shape = Tuple(<<shape.v[1],
                                                  IntOf(out_height),
                                                  IntOf(out_width)>>)])

MaxPooling2D_output_shape(self, log) ==
  LET shape == self.input_shape
      op == "output_shape"
  IN  IF shape.tag = "unset" THEN Out(self, log, Raise(op, "AttributeError"))
      ELSE IF shape.tag = "None" THEN Out(self, log, Raise(op, "TypeError"))
      ELSE IF Len(shape.v) # 3 THEN Out(self, log, Raise(op, "ValueError"))
      ELSE
        LET channels == shape.v[1]
            height == shape.v[2]
            width == shape.v[3]
            out_height ==
              FloatAdd(TrueDiv(height - self.pool_shape[1], self.stride), 1)
            out_width ==
              FloatAdd(TrueDiv(width - self.pool_shape[2], self.stride), 1)
        IN  IF ~FloatIsWhole(out_height) \/ ~FloatIsWhole(out_width)
            THEN Out(self, log, Raise(op, "AssertionError"))
            ELSE Out(self, log,
                     [Ret(op) EXCEPT !.shape = Tuple(<<channels,
                                                       IntOf(out_height),
                                                       IntOf(out_width)>>)])

\* MaxPooling2D defines no persist_weights and Layer has none
MaxPooling2D_persist_weights(self, log) == NoSuchMethod(self, log, "persist_weights")

----------------------------------------------------------------------------
(* Inputs *)

Shapes ==
  {<<>>} \cup {<<d>> : d \in 1..MaxDim}
         \cup {<<c, h>> : c \in 1..MaxChannels, h \in 1..MaxChannels}
         \cup {<<c, h, w>> : c \in 1..MaxChannels, h \in 1..MaxDim, w \in 1..MaxDim}

FilterShapes == {<<a, b>> : a \in 1..MaxFilter, b \in 1..MaxFilter}
PoolShapes == {<<a, b>> : a \in 1..MaxPool, b \in 1..MaxPool}
Paddings == {"same", "valid"}

\* the layers the constructors can build
Constructed ==
  {Dense_init(n, NoneShape) : n \in 1..MaxUnits}
  \cup {BatchNormalization_init, Dropout_init, Activation_init}
  \cup {Conv2D_init(n, f, NoneShape, p, st) :
          n \in 1..MaxFilters, f \in FilterShapes, p \in Paddings, st \in 1..MaxStride}
  \cup {Flatten_init(NoneShape)}
  \cup {MaxPooling2D_init(ps, st) : ps \in PoolShapes, st \in 1..MaxStride}

\* the shapes and layers of the call sequences
WiringShapes == {<<2, 4, 4>>}
LayerNames == {"", "fc1"}

Layers ==
  {Dense_init(2, sh) : sh \in {NoneShape, Tuple(<<3>>)}}
  \cup {BatchNormalization_init, Dropout_init, Activation_init}
  \cup {Conv2D_init(2, <<3, 3>>, sh, "same", 1) : sh \in {NoneShape, Tuple(<<2, 4, 4>>)}}
  \cup {Flatten_init(sh) : sh \in {NoneShape, Tuple(<<2, 4, 4>>)}}
  \cup {MaxPooling2D_init(<<2, 2>>, 2)}

----------------------------------------------------------------------------
(* Actions: one per method *)

Apply(out) ==
  /\ layer' = out.self
  /\ decls' = out.decls
  /\ ret' = out.ret

Call_set_input_shape ==
  \E shape \in WiringShapes : Apply(Layer_set_input_shape(layer, decls, Tuple(shape)))

Call_set_layer_name ==
  \E name \in LayerNames : Apply(Layer_set_layer_name(layer, decls, name))

Call_get_layer_name == Apply(Layer_get_layer_name(layer, decls))

Call_set_trainable ==
  \E b \in BOOLEAN : Apply(set_trainable(layer, decls, b))

Call_Layer_parameters ==
  /\ layer.kind \in {"Dropout", "Activation", "Flatten", "MaxPooling2D"}
  /\ Apply(Layer_parameters(layer, decls))

Call_Dropout_save_weights ==
  /\ layer.kind = "Dropout"
  /\ Apply(Dropout_save_weights(layer, decls))

Call_Dense_initialize ==
  /\ layer.kind = "Dense"
  /\ \E optimizer \in Optimizers : Apply(Dense_initialize(layer, decls, optimizer))

Call_Dense_parameters ==
  /\ layer.kind = "Dense"
  /\ Apply(Dense_parameters(layer, decls))

Call_Dense_forward_pass ==
  /\ layer.kind = "Dense"
  /\ Len(decls) < MaxDecl
  /\ \E X \in Inputs, training \in BOOLEAN :
       Apply(Dense_forward_pass(layer, decls, X, training))

Call_Dense_backward_pass ==
  /\ layer.kind = "Dense"
  /\ Len(decls) < MaxDecl
  /\ \E grad \in Grads : Apply(Dense_backward_pass(layer, decls, grad))

Call_Dense_output_shape ==
  /\ layer.kind = "Dense"
  /\ Apply(Dense_output_shape(layer, decls))

Call_Dense_persist_weights ==
  /\ layer.kind = "Dense"
  /\ Apply(Dense_persist_weights(layer, decls))

Call_BatchNormalization_initialize ==
  /\ layer.kind = "BatchNormalization"
  /\ \E optimizer \in Optimizers : Apply(BatchNormalization_initialize(layer, decls, optimizer))

Call_BatchNormalization_parameters ==
  /\ layer.kind = "BatchNormalization"
  /\ Apply(BatchNormalization_parameters(layer, decls))

Call_BatchNormalization_forward_pass ==
  /\ layer.kind = "BatchNormalization"
  /\ Len(decls) < MaxDecl
  /\ \E X \in Inputs, training \in BOOLEAN :
       Apply(BatchNormalization_forward_pass(layer, decls, X, training))

Call_BatchNormalization_backward_pass ==
  /\ layer.kind = "BatchNormalization"
  /\ Len(decls) < MaxDecl
  /\ \E grad \in Grads : Apply(BatchNormalization_backward_pass(layer, decls, grad))

Call_BatchNormalization_output_shape ==
  /\ layer.kind = "BatchNormalization"
  /\ Apply(BatchNormalization_output_shape(layer, decls))

Call_BatchNormalization_persist_weights ==
  /\ layer.kind = "BatchNormalization"
  /\ Apply(BatchNormalization_persist_weights(layer, decls))

Call_Dropout_forward_pass ==
  /\ layer.kind = "Dropout"
  /\ Len(decls) < MaxDecl
  /\ \E X \in Inputs, training \in BOOLEAN :
       Apply(Dropout_forward_pass(layer, decls, X, training))

Call_Dropout_backward_pass ==
  /\ layer.kind = "Dropout"
  /\ Len(decls) < MaxDecl
  /\ \E grad \in Grads : Apply(Dropout_backward_pass(layer, decls, grad))

Call_Dropout_output_shape ==
  /\ layer.kind = "Dropout"
  /\ Apply(Dropout_output_shape(layer, decls))

Call_Dropout_persist_weights ==
  /\ layer.kind = "Dropout"
  /\ Apply(Dropout_persist_weights(layer, decls))

Call_Activation_forward_pass ==
  /\ layer.kind = "Activation"
  /\ Len(decls) < MaxDecl
  /\ \E X \in Inputs, training \in BOOLEAN :
       Apply(Activation_forward_pass(layer, decls, X, training))

Call_Activation_backward_pass ==
  /\ layer.kind = "Activation"
  /\ Len(decls) < MaxDecl
  /\ \E grad \in Grads : Apply(Activation_backward_pass(layer, decls, grad))

Call_Activation_output_shape ==
  /\ layer.kind = "Activation"
  /\ Apply(Activation_output_shape(layer, decls))

Call_Activation_persist_weights ==
  /\ layer.kind = "Activation"
  /\ Apply(Activation_persist_weights(layer, decls))

Call_Conv2D_initialize ==
  /\ layer.kind = "Conv2D"
  /\ \E optimizer \in Optimizers : Apply(Conv2D_initialize(layer, decls, optimizer))

Call_Conv2D_parameters ==
  /\ layer.kind = "Conv2D"
  /\ Apply(Conv2D_parameters(layer, decls))

Call_Conv2D_forward_pass ==
  /\ layer.kind = "Conv2D"
  /\ Len(decls) < MaxDecl
  /\ \E X \in Inputs, training \in BOOLEAN :
       Apply(Conv2D_forward_pass(layer, decls, X, training))

Call_Conv2D_backward_pass ==
  /\ layer.kind = "Conv2D"
  /\ Len(decls) < MaxDecl
  /\ \E grad \in Grads : Apply(Conv2D_backward_pass(layer, decls, grad))

Call_Conv2D_output_shape ==
  /\ layer.kind = "Conv2D"
  /\ Apply(Conv2D_output_shape(layer, decls))

Call_Conv2D_persist_weights ==
  /\ layer.kind = "Conv2D"
  /\ Apply(Conv2D_persist_weights(layer, decls))

Call_Flatten_forward_pass ==
  /\ layer.kind = "Flatten"
  /\ Len(decls) < MaxDecl
  /\ \E X \in Inputs, training \in BOOLEAN :
       Apply(Flatten_forward_pass(layer, decls, X, training))

Call_Flatten_backward_pass ==
  /\ layer.kind = "Flatten"
  /\ Len(decls) < MaxDecl
  /\ \E grad \in Grads : Apply(Flatten_backward_pass(layer, decls, grad))

Call_Flatten_output_shape ==
  /\ layer.kind = "Flatten"
  /\ Apply(Flatten_output_shape(layer, decls))

Call_Flatten_persist_weights ==
  /\ layer.kind = "Flatten"
  /\ Apply(Flatten_persist_weights(layer, decls))

Call_MaxPooling2D_forward_pass ==
  /\ layer.kind = "MaxPooling2D"
  /\ Len(decls) < MaxDecl
  /\ \E X \in Inputs, training \in BOOLEAN :
       Apply(MaxPooling2D_forward_pass(layer, decls, X, training))

Call_MaxPooling2D_backward_pass ==
  /\ layer.kind = "MaxPooling2D"
  /\ Len(decls) < MaxDecl
  /\ \E grad \in Grads : Apply(MaxPooling2D_backward_pass(layer, decls, grad))

Call_MaxPooling2D_output_shape ==
  /\ layer.kind = "MaxPooling2D"
  /\ Apply(MaxPooling2D_output_shape(layer, decls))

Call_MaxPooling2D_persist_weights ==
  /\ layer.kind = "MaxPooling2D"
  /\ Apply(MaxPooling2D_persist_weights(layer, decls))

----------------------------------------------------------------------------
(* The layer under any sequence of calls *)

Init ==
  /\ layer \in Layers
  /\ decls = <<>>
  /\ ret = Ret("__init__")

Next ==
  \/ Call_set_input_shape
  \/ Call_set_layer_name
  \/ Call_get_layer_name
  \/ Call_set_trainable
  \/ Call_Layer_parameters
  \/ Call_Dropout_save_weights
  \/ Call_Dense_initialize
  \/ Call_Dense_parameters
  \/ Call_Dense_forward_pass
  \/ Call_Dense_backward_pass
  \/ Call_Dense_output_shape
  \/ Call_Dense_persist_weights
  \/ Call_BatchNormalization_initialize
  \/ Call_BatchNormalization_parameters
  \/ Call_BatchNormalization_forward_pass
  \/ Call_BatchNormalization_backward_pass
  \/ Call_BatchNormalization_output_shape
  \/ Call_BatchNormalization_persist_weights
  \/ Call_Dropout_forward_pass
  \/ Call_Dropout_backward_pass
  \/ Call_Dropout_output_shape
  \/ Call_Dropout_persist_weights
  \/ Call_Activation_forward_pass
  \/ Call_Activation_backward_pass
  \/ Call_Activation_output_shape
  \/ Call_Activation_persist_weights
  \/ Call_Conv2D_initialize
  \/ Call_Conv2D_parameters
  \/ Call_Conv2D_forward_pass
  \/ Call_Conv2D_backward_pass
  \/ Call_Conv2D_output_shape
  \/ Call_Conv2D_persist_weights
  \/ Call_Flatten_forward_pass
  \/ Call_Flatten_backward_pass
  \/ Call_Flatten_output_shape
  \/ Call_Flatten_persist_weights
  \/ Call_MaxPooling2D_forward_pass
  \/ Call_MaxPooling2D_backward_pass
  \/ Call_MaxPooling2D_output_shape
  \/ Call_MaxPooling2D_persist_weights

Spec == Init /\ [][Next]_vars

----------------------------------------------------------------------------
(* The shape arithmetic: a constructed layer, wired with any input shape   *)
(* or left unwired, on which initialize, parameters and output_shape run   *)

ShapeInit ==
  /\ layer \in Constructed \cup
               {Layer_set_input_shape(l, <<>>, Tuple(sh)).self :
                  l \in Constructed, sh \in Shapes}
  /\ decls = <<>>
  /\ ret = Ret("__init__")

ShapeNext ==
  \/ Call_Layer_parameters
  \/ Call_Dense_initialize
  \/ Call_Dense_parameters
  \/ Call_Dense_output_shape
  \/ Call_BatchNormalization_initialize
  \/ Call_BatchNormalization_parameters
  \/ Call_BatchNormalization_output_shape
  \/ Call_Dropout_output_shape
  \/ Call_Activation_output_shape
  \/ Call_Conv2D_initialize
  \/ Call_Conv2D_parameters
  \/ Call_Conv2D_output_shape
  \/ Call_Flatten_output_shape
  \/ Call_MaxPooling2D_output_shape

ShapeSpec == ShapeInit /\ [][ShapeNext]_vars

----------------------------------------------------------------------------
(* Properties *)

\* "True" / "False" for a boolean
BoolStr(b) == IF b THEN "True" ELSE "False"

\* the integers an output dimension can take within the bounds
DimRange ==
  -(MaxDim + MaxFilter + MaxPool + 2)..(MaxDim + MaxFilter + MaxPool + 2)

Wired3(l) == l.input_shape.tag = "tuple" /\ Len(l.input_shape.v) = 3

\* the integers k with k = x / s + 1 exactly
ExactOut(x, s) == {k \in DimRange : (k - 1) * s = x}

\* C1: MaxPooling2D.output_shape() returns (channels, (h - pool_h)/stride + 1,
\* (w - pool_w)/stride + 1) when both quotients are integers, and otherwise
\* fails with an assertion error and returns no shape
C1_PoolShapeOrReject ==
  (layer.kind = "MaxPooling2D" /\ ret.op = "output_shape" /\ Wired3(layer)) =>
    LET sh == layer.input_shape.v
        Hs == ExactOut(sh[2] - layer.pool_shape[1], layer.stride)
        Ws == ExactOut(sh[3] - layer.pool_shape[2], layer.stride)
    IN  IF Hs # {} /\ Ws # {}
        THEN /\ ret.err = ""
             /\ \E kh \in Hs, kw \in Ws : ret.shape = Tuple(<<sh[1], kh, kw>>)
        ELSE /\ ret.err = "AssertionError"
             /\ ret.shape = Unset

\* a pooling layer whose window does not divide the input has been asked for
\* its output shape and has rejected
C1_Witness ==
  /\ layer.kind = "MaxPooling2D"
  /\ layer.pool_shape = <<2, 2>> /\ layer.stride = 2
  /\ layer.input_shape = Tuple(<<2, 3, 3>>)
  /\ ret.op = "output_shape"
  /\ ret.err = "AssertionError"

\* total padding of one dimension under a padding policy
TotalPad(padding, filter_dim) == IF padding = "same" THEN filter_dim - 1 ELSE 0

\* floor(x / s) + 1
FloorOut(x, s) == (x \div s) + 1

\* x / s + 1 truncated toward zero
TruncOut(x, s) ==
  IF x + s >= 0 THEN (x + s) \div s ELSE -((-(x + s)) \div s)

\* C2 as stated: Conv2D.output_shape() returns (n_filters,
\* floor((h + pad_h - filter_h)/stride) + 1, floor((w + pad_w - filter_w)/stride) + 1)
\* for every input shape, filter shape, stride and padding policy
C2_FloorFormula ==
  (layer.kind = "Conv2D" /\ ret.op = "output_shape" /\ Wired3(layer)) =>
    LET sh == layer.input_shape.v
        f == layer.filter_shape
    IN  /\ ret.err = ""
        /\ ret.shape =
             Tuple(<<layer.n_filters,
                     FloorOut(sh[2] + TotalPad(layer.padding, f[1]) - f[1], layer.stride),
                     FloorOut(sh[3] + TotalPad(layer.padding, f[2]) - f[2], layer.stride)>>)

\* C2 amended: the two spatial outputs are (dim + pad - filter_dim)/stride + 1
\* truncated toward zero, which is the floor formula whenever
\* dim + pad - filter_dim >= -stride; with stride 1 "same" keeps the spatial
\* size and "valid" shrinks it by filter_dim - 1
C2_TruncFormula ==
  (layer.kind = "Conv2D" /\ ret.op = "output_shape" /\ Wired3(layer)) =>
    LET sh == layer.input_shape.v
        f == layer.filter_shape
        xh == sh[2] + TotalPad(layer.padding, f[1]) - f[1]
        xw == sh[3] + TotalPad(layer.padding, f[2]) - f[2]
    IN  /\ ret.err = ""
        /\ ret.shape = Tuple(<<layer.n_filters, TruncOut(xh, layer.stride),
                               TruncOut(xw, layer.stride)>>)
        /\ (xh >= -layer.stride /\ xw >= -layer.stride) =>
             ret.shape = Tuple(<<layer.n_filters, FloorOut(xh, layer.stride),
                                 FloorOut(xw, layer.stride)>>)
        /\ (layer.stride = 1 /\ layer.padding = "same") =>
             ret.shape = Tuple(<<layer.n_filters, sh[2], sh[3]>>)
        /\ (layer.stride = 1 /\ layer.padding = "valid") =>
             ret.shape = Tuple(<<layer.n_filters, sh[2] - (f[1] - 1), sh[3] - (f[2] - 1)>>)

\* an unpadded filter taller than its input, with stride 2: the output height
\* has been computed and is not the floor formula's
C2_Witness ==
  /\ layer.kind = "Conv2D"
  /\ layer.padding = "valid" /\ layer.stride = 2
  /\ layer.filter_shape = <<4, 1>>
  /\ layer.input_shape = Tuple(<<1, 1, 1>>)
  /\ ret.op = "output_shape"
  /\ ret.shape = Tuple(<<layer.n_filters, 0, 1>>)

\* C3: a Dense layer with input shape (d,) has output shape (n_units,) and,
\* once initialize has been called, d*n_units + n_units parameters
C3_DenseShapeAndCount ==
  (/\ layer.kind = "Dense"
   /\ layer.input_shape.tag = "tuple"
   /\ Len(layer.input_shape.v) = 1) =>
    LET d == layer.input_shape.v[1]
        n == layer.n_units
    IN  /\ ret.op = "output_shape" =>
             ret.err = "" /\ ret.shape = Tuple(<<n>>)
        /\ ret.op = "initialize" =>
             ret.err = "" /\ layer.np_W = <<d, n>> /\ layer.np_w0 = <<1, n>>
        /\ (ret.op = "parameters" /\ layer.optimizer # Absent) =>
             ret.err = "" /\ ret.count = d * n + n

\* an initialised Dense layer of 3 inputs and 2 units has counted 8 parameters
C3_Witness ==
  /\ layer.kind = "Dense"
  /\ layer.n_units = 2
  /\ layer.input_shape = Tuple(<<3>>)
  /\ layer.optimizer # Absent
  /\ ret.op = "parameters"
  /\ ret.count = 8

\* C4: BatchNormalization.initialize gives gamma and beta the shape (1, C)
\* for an input shape of length 1 and (1, C, 1, 1) for any other length, and
\* parameters() is then 2*C
C4_BatchNormShapes ==
  (/\ layer.kind = "BatchNormalization"
   /\ layer.input_shape.tag = "tuple"
   /\ Len(layer.input_shape.v) >= 1) =>
    LET C == layer.input_shape.v[1]
        expected == IF Len(layer.input_shape.v) = 1
                    THEN <<1, C>> ELSE <<1, C, 1, 1>>
    IN  /\ ret.op = "initialize" =>
             ret.err = "" /\ layer.np_gamma = expected /\ layer.np_beta = expected
        /\ (ret.op = "parameters" /\ layer.optimizer # Absent) =>
             ret.err = "" /\ ret.count = 2 * C /\ layer.np_gamma = expected

\* a batch normalisation over a spatial input of 2 channels has been
\* initialised and has counted its parameters
C4_Witness ==
  /\ layer.kind = "BatchNormalization"
  /\ layer.input_shape = Tuple(<<2, 3, 3>>)
  /\ layer.np_gamma = <<1, 2, 1, 1>>
  /\ layer.np_beta = <<1, 2, 1, 1>>
  /\ ret.op = "parameters"
  /\ ret.count = 4

\* C5: output_shape() of every layer type changes no field of the layer and
\* declares nothing, and a call that follows another call gives the same result
C5_OutputShapePure ==
  [][ret'.op = "output_shape" =>
       /\ layer' = layer
       /\ decls' = decls
       /\ (ret.op = "output_shape" => ret' = ret)]_vars

\* a Flatten layer that holds both node handles has computed its output shape
C5_Witness ==
  /\ layer.kind = "Flatten"
  /\ layer.forward_pass # None /\ layer.backward_pass # None
  /\ ret.op = "output_shape"
  /\ ret.shape = Tuple(<<32>>)

ParameterFree == {"Activation", "Dropout", "Flatten", "MaxPooling2D"}

\* C6: persist_weights() of Activation, Dropout, Flatten and MaxPooling2D
\* completes without error, requests no persist_op and changes nothing
C6_PersistIsNoOp ==
  [][(ret'.op = "persist_weights" /\ layer.kind \in ParameterFree) =>
       /\ ret'.err = ""
       /\ ret'.persisted = <<>>
       /\ layer' = layer
       /\ decls' = decls]_vars

\* the layer has what its passes read: an input shape, an optimizer and, for
\* the backward pass of Conv2D, the input of a forward pass
Prepared(l) ==
  /\ l.input_shape.tag = "tuple"
  /\ l.optimizer # Absent
  /\ l.kind = "Conv2D" => l.layer_input # Absent

\* C7: on a prepared layer, the forward passes of BatchNormalization and
\* Dropout and the backward passes of BatchNormalization and Conv2D make their
\* declaration and pass the training / trainable flag as "True" or "False"
\* matching the boolean
C7_FlagStrings ==
  /\ (/\ ret.op = "_forward_pass"
      /\ layer.kind \in {"BatchNormalization", "Dropout"}
      /\ layer.kind = "BatchNormalization" => Prepared(layer)) =>
       /\ ret.err = ""
       /\ decls # <<>>
       /\ decls[Len(decls)].node = ret.node
       /\ decls[Len(decls)].training = BoolStr(ret.training)
       /\ layer.kind = "BatchNormalization" =>
            decls[Len(decls)].trainable = BoolStr(layer.trainable)
  /\ (/\ ret.op = "_backward_pass"
      /\ layer.kind \in {"BatchNormalization", "Conv2D"}
      /\ Prepared(layer)) =>
       /\ ret.err = ""
       /\ decls # <<>>
       /\ decls[Len(decls)].node = ret.node
       /\ decls[Len(decls)].trainable = BoolStr(layer.trainable)

\* the call declared exactly one backward_pass_dense node, stored and returned
DeclaredDenseBackward ==
  /\ ret'.err = ""
  /\ Len(decls') = Len(decls) + 1
  /\ SubSeq(decls', 1, Len(decls)) = decls
  /\ decls'[Len(decls')].op = "backward_pass_dense"
  /\ layer'.backward_pass = decls'[Len(decls')].node
  /\ ret'.node = decls'[Len(decls')].node
  /\ ret'.dict_calls = 1

\* the call declared nothing, did not consult data_dict() and kept the handle
DeclaredNothing ==
  /\ decls' = decls
  /\ ret'.dict_calls = 0
  /\ layer'.backward_pass = layer.backward_pass

\* C8 as stated: Dense._backward_pass declares one backward node, stored and
\* returned, when trainable is true, and when it is false declares nothing,
\* does not consult data_dict() and leaves the backward handle unchanged
C8_DeclaresIffTrainable ==
  [][(ret'.op = "_backward_pass" /\ layer.kind = "Dense") =>
       IF layer.trainable
       THEN DeclaredDenseBackward
       ELSE DeclaredNothing /\ ret'.err = ""]_vars

\* C8 amended: as stated when initialize(optimizer) has been called; a
\* trainable layer that has no optimizer yet raises AttributeError and
\* declares nothing
C8_DeclaresIffTrainableInitialized ==
  [][(ret'.op = "_backward_pass" /\ layer.kind = "Dense") =>
       IF layer.trainable /\ layer.optimizer # Absent
       THEN DeclaredDenseBackward
       ELSE IF layer.trainable
       THEN DeclaredNothing /\ ret'.err = "AttributeError" /\ layer' = layer
       ELSE DeclaredNothing /\ ret'.err = "" /\ layer' = layer
                            /\ ret'.node = layer.backward_pass]_vars

\* a Dense layer that declared a backward node, was then frozen and was asked
\* for a backward pass again: the old handle is returned
C8_Witness ==
  /\ layer.kind = "Dense"
  /\ ~layer.trainable
  /\ ret.op = "_backward_pass"
  /\ ret.err = ""
  /\ ret.node = layer.backward_pass
  /\ layer.backward_pass # None
  /\ Len(decls) = 1

MaxOf(S) == CHOOSE x \in S : \A y \in S : y <= x

\* the node returned by the latest declaration of a direction among the
\* first n declarations, None when there is none
LatestNode(dir, n) ==
  LET idx == {i \in 1..n : decls[i].dir = dir}
  IN  IF idx = {} THEN None ELSE decls[MaxOf(idx)].node

\* C9: the forward handle is the node of the latest forward declaration and
\* the backward handle the node of the latest backward declaration (None when
\* there is none); a forward call leaves the backward handle alone and a
\* backward call leaves the forward handle alone
C9_SingleSlotHandles ==
  /\ [](/\ layer.forward_pass = LatestNode("forward", Len(decls))
        /\ layer.backward_pass = LatestNode("backward", Len(decls)))
  /\ [][/\ ret'.op = "_forward_pass" => layer'.backward_pass = layer.backward_pass
        /\ ret'.op = "_backward_pass" => layer'.forward_pass = layer.forward_pass]_vars

\* forward, backward, forward again: the second forward node has replaced the
\* first and the backward node is still held
C9_Witness ==
  /\ Len(decls) = 3
  /\ decls[1].dir = "forward" /\ decls[2].dir = "backward" /\ decls[3].dir = "forward"
  /\ layer.forward_pass = 3
  /\ layer.backward_pass = 2

\* the first argument of the latest forward declaration among the first n
LatestForwardInput(n) ==
  LET idx == {i \in 1..n : decls[i].dir = "forward"}
  IN  IF idx = {} THEN Absent ELSE decls[MaxOf(idx)].x

\* C10 as stated: every backward declaration of every layer type is given the
\* node of the layer's latest forward declaration
C10_ForwardFeedsBackward ==
  \A i \in 1..Len(decls) :
    decls[i].dir = "backward" => decls[i].data = LatestNode("forward", i - 1)

\* C10 amended: the backward declarations of Dense, BatchNormalization,
\* Dropout, Conv2D and MaxPooling2D are given the node of the latest forward
\* declaration (None when there is none); those of Activation and Flatten are
\* not given it: they are given the input X of the latest forward pass
C10_ForwardFeedsBackwardExceptInputOnly ==
  \A i \in 1..Len(decls) :
    decls[i].dir = "backward" =>
      CASE layer.kind = "Activation" ->
             /\ decls[i].data = Absent
             /\ decls[i].layer_input = LatestForwardInput(i - 1)
             /\ decls[i].layer_input \in Inputs
        [] layer.kind = "Flatten" ->
             /\ decls[i].data = Absent
             /\ decls[i].prev_input = LatestForwardInput(i - 1)
             /\ decls[i].prev_input \in Inputs
        [] OTHER ->
             decls[i].data = LatestNode("forward", i - 1)

\* two forward passes and then a backward pass of a Dense layer: the backward
\* declaration holds the second forward node
C10_Witness ==
  /\ layer.kind = "Dense"
  /\ Len(decls) = 3
  /\ decls[1].dir = "forward" /\ decls[2].dir = "forward"
  /\ decls[3].dir = "backward"
  /\ decls[3].data = 2

====
